---- MODULE Spec2Model ----
(***************************************************************************)
(* A model of examples/onnxrt/onnx_model_zoo/gpt2/gpt2.py: the token-block *)
(* cache (TextDataset), the evaluation loop (evaluate) and the scoring     *)
(* closure handed to the quantization driver (main.eval_func).             *)
(*                                                                         *)
(* Strings are sequences of one-character strings, so that the cache path  *)
(* is really a concatenation.  Times are whole timer ticks and losses are  *)
(* whole loss units; a quotient is kept as the pair <<numerator,           *)
(* denominator>> and exp() as a symbolic term over such a pair.            *)
(***************************************************************************)
EXTENDS Integers, Sequences, FiniteSets, TLC

VARIABLES
    fs,            \* the files under ./dataset_cached: path -> pickled bytes
    file_text,     \* the content of args.eval_data_file, a sequence of words
    args,          \* the parsed command line (argparse namespace)
    examples,      \* self.examples of the TextDataset constructed last
    last,          \* what the last TextDataset construction did
    built,         \* history: key -> the dataset last built (tokenized) for it
    nops,          \* number of operations performed so far
    pc,            \* position of main / evaluate
    ds,            \* main's ds (line 245)
    model,         \* the model handed to evaluate()
    batches,       \* the batches eval_dataloader yields, in order
    idx,           \* number of batches already drawn from eval_dataloader
    eval_loss,     \* evaluate's eval_loss
    nb_eval_steps, \* evaluate's nb_eval_steps
    total_time,    \* evaluate's total_time
    ort_inputs,    \* evaluate's ort_inputs: input name -> tensor
    onnx_inputs,   \* number of inputs the graph at args.model_path declares
    cuda_devices,  \* torch.cuda.device_count() on the machine of the run
    main_fs,       \* history: the files as main left them at line 245
    hist,          \* history: <<loss, duration>> of every processed step
    out,           \* what evaluate printed / logged after its loop
    result,        \* the value evaluate returned
    prev,          \* history: model -> value returned by the previous call
    calls          \* number of evaluate() calls started

vars == <<fs, file_text, args, examples, last, built, nops, pc, ds, model,
          batches, idx, eval_loss, nb_eval_steps, total_time, ort_inputs,
          onnx_inputs, cuda_devices, main_fs, hist, out, result, prev,
          calls>>

cacheVars == <<fs, file_text, examples, last, built, nops>>
evalVars == <<args, pc, ds, model, batches, idx, eval_loss, nb_eval_steps,
              total_time, ort_inputs, onnx_inputs, cuda_devices, main_fs,
              hist, out, result, prev, calls>>

----------------------------------------------------------------------------
(* Bounds of the model *)

MaxBlock == 2        \* block sizes 1..MaxBlock in the cache scenarios
MaxTextLen == 3      \* longest source text in the cache scenarios
MaxOps == 4          \* operations in a cache scenario
MaxBuilds == 2       \* constructions in a build scenario
MaxKeyBlock == 12    \* block sizes 1..MaxKeyBlock in the key scenario
MaxKeyOps == 2       \* constructions in the key scenario
MaxEvalLen == 6      \* longest source text of a benchmark run
MaxWarmup == 2       \* args.warmup_steps in 0..MaxWarmup
MaxIter == 3         \* args.iter in 0..MaxIter
MaxBatch == 2        \* args.per_gpu_eval_batch_size in 1..MaxBatch
MaxTuneLen == 4      \* longest source text of a tuning run
MaxCalls == 2        \* eval_func calls of a tuning run

Words == {1, 2}      \* the words a source text is made of

----------------------------------------------------------------------------
(* Generic helpers *)

Min(a, b) == IF a < b THEN a ELSE b
Max(a, b) == IF a > b THEN a ELSE b

RECURSIVE Concat(_)
Concat(ss) == IF ss = <<>> THEN <<>> ELSE Head(ss) \o Concat(Tail(ss))

RECURSIVE SumSeq(_)
SumSeq(s) == IF s = <<>> THEN 0 ELSE Head(s) + SumSeq(Tail(s))

\* All sequences over S of length at most n.
SeqsUpTo(S, n) == UNION {[1..k -> S] : k \in 0..n}

\* Python range(start, stop, step) for step > 0, as a sequence.
PyRange(start, stop, step) ==
    LET n == IF stop > start THEN ((stop - start - 1) \div step) + 1 ELSE 0
    IN [k \in 1..n |-> start + (k - 1) * step]

\* Python s[i:j] for 0 <= i <= j (0-based, clamped to the length).
PySlice(s, i, j) == SubSeq(s, i + 1, Min(j, Len(s)))

----------------------------------------------------------------------------
(* Strings and paths *)

Digits == <<"0", "1", "2", "3", "4", "5", "6", "7", "8", "9">>

\* str(n) of a non-negative int: its decimal digits.
RECURSIVE str(_)
str(n) == IF n < 10 THEN <<Digits[n + 1]>>
          ELSE str(n \div 10) \o <<Digits[(n % 10) + 1]>>

\* os.path.split(p): <<head, tail>>, tail being what follows the last "/".
RECURSIVE LastSlash(_)
LastSlash(p) == IF p = <<>> THEN 0
                ELSE IF p[Len(p)] = "/" THEN Len(p)
                ELSE LastSlash(SubSeq(p, 1, Len(p) - 1))

RECURSIVE RStripSlashes(_)
RStripSlashes(h) == IF h # <<>> /\ h[Len(h)] = "/"
                    THEN RStripSlashes(SubSeq(h, 1, Len(h) - 1))
                    ELSE h

\* The head is what precedes the tail, without its trailing slashes unless
\* it consists of slashes only.
os_path_split(p) ==
    LET k == LastSlash(p)
        head == SubSeq(p, 1, k)
    IN <<IF RStripSlashes(head) = <<>> THEN head ELSE RStripSlashes(head),
         SubSeq(p, k + 1, Len(p))>>

\* os.path.join(a, b): b alone when b is absolute, else a "/" b.
os_path_join(a, b) ==
    IF b # <<>> /\ b[1] = "/" THEN b
    ELSE IF a = <<>> \/ a[Len(a)] = "/" THEN a \o b
    ELSE a \o <<"/">> \o b

DatasetCached ==
    <<".", "/", "d", "a", "t", "a", "s", "e", "t", "_",
      "c", "a", "c", "h", "e", "d">>

CachedLm == <<"_", "c", "a", "c", "h", "e", "d", "_", "l", "m", "_">>

\* Lines 60-61.
cached_features_file(model_name_or_path, block_size, filename) ==
    os_path_join(DatasetCached,
                 model_name_or_path \o CachedLm \o str(block_size)
                     \o <<"_">> \o filename)

----------------------------------------------------------------------------
(* The tokenizer (GPT2Tokenizer, an external collaborator) *)

\* tokenizer.convert_tokens_to_ids(tokenizer.tokenize(text)): one id per
\* word of the text, in order; the vocabulary maps word w to id 100 + w.
VocabId(w) == 100 + w
tokenize_to_ids(text) == [i \in 1..Len(text) |-> VocabId(text[i])]

\* GPT2Tokenizer.build_inputs_with_special_tokens adds nothing to a single
\* sequence: GPT-2 has no prefix and no suffix tokens.
SpecialPrefix == <<>>
SpecialSuffix == <<>>
build_inputs_with_special_tokens(ids) == SpecialPrefix \o ids \o SpecialSuffix

----------------------------------------------------------------------------
(* pickle: a list of lists of ints as a flat sequence, every list framed   *)
(* by its length.                                                          *)

pickle_dump(exs) ==
    <<Len(exs)>> \o Concat([k \in 1..Len(exs) |-> <<Len(exs[k])>> \o exs[k]])

RECURSIVE ParseLists(_, _)
ParseLists(bytes, n) ==
    IF n = 0 THEN <<>>
    ELSE LET m == bytes[1]
         IN <<SubSeq(bytes, 2, m + 1)>>
                \o ParseLists(SubSeq(bytes, m + 2, Len(bytes)), n - 1)

pickle_load(bytes) == ParseLists(Tail(bytes), bytes[1])

----------------------------------------------------------------------------
(* TextDataset.__init__ *)

\* A block loop that runs to the end of the text and keeps the short tail.
build_examples_KeepTail(tokenized_text, block_size) ==
    LET starts == PyRange(0, Len(tokenized_text), block_size)
    IN [k \in 1..Len(starts) |->
           build_inputs_with_special_tokens(
               PySlice(tokenized_text, starts[k], starts[k] + block_size))]

\* Lines 70-77: the blocks of one tokenized text.
build_examples(tokenized_text, block_size) ==
    LET starts == PyRange(0, Len(tokenized_text) - block_size + 1, block_size)
    IN [k \in 1..Len(starts) |->
           build_inputs_with_special_tokens(
               PySlice(tokenized_text, starts[k], starts[k] + block_size))]

\* dict.update({k: v}), and any other map with one entry set.
Put(f, k, v) == [x \in (DOMAIN f) \cup {k} |-> IF x = k THEN v ELSE f[x]]

----------------------------------------------------------------------------
(* The file system.  A path names a place through the directories it      *)
(* walks: "./g" and "g" are one file, and so are a file and its absolute   *)
(* name.  A place is the sequence of names that leads to it from the root. *)
(* The tree of a run: the working directory /up2/up1/cwd, in it the        *)
(* directory of the source file and ./dataset_cached (which lines 58-59    *)
(* create), and beside its parent the directory /up2/other.                *)

\* args.eval_data_file: the one source file of every scenario, "d/f".
EvalDataFile == <<"d", "/", "f">>

\* p split at every "/".
RECURSIVE SplitPath(_)
SplitPath(p) ==
    LET k == LastSlash(p)
    IN IF k = 0 THEN <<p>>
       ELSE SplitPath(SubSeq(p, 1, k - 1)) \o <<SubSeq(p, k + 1, Len(p))>>

Up2 == <<"u", "p", "2">>
Up1 == <<"u", "p", "1">>
CwdName == <<"c", "w", "d">>
OtherName == <<"o", "t", "h", "e", "r">>

\* os.getcwd(), as a place.
WorkingDir == <<Up2, Up1, CwdName>>

DatasetCachedName == os_path_split(DatasetCached)[2]

\* The source file, which line 56 asserts to be a file, and its directory.
SourceFile == WorkingDir \o SplitPath(EvalDataFile)
SourceDir == SubSeq(SourceFile, 1, Len(SourceFile) - 1)

\* The directories that exist; nothing in the program creates another.
Dirs ==
    {<<>>, <<Up2>>, <<Up2, Up1>>, WorkingDir, SourceDir,
     WorkingDir \o <<DatasetCachedName>>, <<Up2, OtherName>>}

\* os.path.isdir of a place.
IsDir(loc) == loc \in Dirs

\* os.path.isfile of a place: the source file, or a file that was written.
IsFile(fsys, loc) == loc = SourceFile \/ loc \in DOMAIN fsys

\* One component further from the directory loc: "" and "." stay, ".."
\* goes to the parent, which for the root is the root.
PathStep(loc, c) ==
    IF c = <<>> \/ c = <<".">> THEN loc
    ELSE IF c = <<".", ".">>
         THEN IF loc = <<>> THEN loc ELSE SubSeq(loc, 1, Len(loc) - 1)
    ELSE Append(loc, c)

\* Through the directories comps names, from the directory loc: the
\* directory reached, or the error of the first component that is not a
\* directory (ENOTDIR for a file, ENOENT for nothing).
RECURSIVE Walk(_, _, _)
Walk(fsys, loc, comps) ==
    IF comps = <<>> THEN [kind |-> "dir", loc |-> loc]
    ELSE LET n == PathStep(loc, Head(comps))
         IN IF IsDir(n) THEN Walk(fsys, n, Tail(comps))
            ELSE IF IsFile(fsys, n)
                 THEN [kind |-> "NotADirectoryError", loc |-> <<>>]
            ELSE [kind |-> "FileNotFoundError", loc |-> <<>>]

\* What the path names: a directory ("dir"), a place for a file in an
\* existing directory ("file", the file being there or not), or the error
\* open() raises on the way to it.
Resolve(fsys, p) ==
    LET comps == SplitPath(p)
        start == IF p # <<>> /\ p[1] = "/" THEN <<>> ELSE WorkingDir
        dir == Walk(fsys, start, SubSeq(comps, 1, Len(comps) - 1))
        n == PathStep(dir.loc, comps[Len(comps)])
    IN IF dir.kind # "dir" THEN dir
       ELSE IF IsDir(n) THEN [kind |-> "dir", loc |-> n]
       ELSE [kind |-> "file", loc |-> n]

\* os.path.exists(path)
os_path_exists(fsys, path) ==
    LET r == Resolve(fsys, path)
    IN r.kind = "dir" \/ (r.kind = "file" /\ IsFile(fsys, r.loc))

\* The exception of open(path, mode), "none" when the file is opened: a
\* directory is no file to open, and reading needs the file to be there.
OpenError(fsys, path, writing) ==
    LET r == Resolve(fsys, path)
    IN IF r.kind = "dir" THEN "IsADirectoryError"
       ELSE IF r.kind # "file" THEN r.kind
       ELSE IF ~writing /\ ~IsFile(fsys, r.loc) THEN "FileNotFoundError"
       ELSE "none"

\* What open(path, 'rb') reads.
ReadFile(fsys, path) == fsys[Resolve(fsys, path).loc]

\* open(path, 'wb') and the write, the path naming a place for a file.
WriteFile(fsys, path, bytes) == Put(fsys, Resolve(fsys, path).loc, bytes)

\* Lines 55-84: what one construction yields, given the files and the text.
\* hit: the cached file was loaded; tokenized: the tokenizer was invoked;
\* error: the exception that ended the construction, if any.  open() of
\* line 83 raises when the path does not lead to a place for a file, after
\* the blocks were built, and no dataset comes to be.
TextDataset(fsys, text, model_name_or_path, overwrite_cache, file_path, block_size) ==
    LET filename == os_path_split(file_path)[2]
        cached == cached_features_file(model_name_or_path, block_size,
                                       filename)
    IN IF os_path_exists(fsys, cached) /\ ~overwrite_cache
       THEN IF OpenError(fsys, cached, FALSE) # "none"
            THEN [examples |-> <<>>, fs |-> fsys, hit |-> FALSE,
                  tokenized |-> FALSE, path |-> cached,
                  error |-> OpenError(fsys, cached, FALSE)]
            ELSE [examples |-> pickle_load(ReadFile(fsys, cached)),
                  fs |-> fsys, hit |-> TRUE, tokenized |-> FALSE,
                  path |-> cached, error |-> "none"]
       ELSE LET exs == build_examples(tokenize_to_ids(text), block_size)
            IN IF OpenError(fsys, cached, TRUE) # "none"
               THEN [examples |-> <<>>, fs |-> fsys, hit |-> FALSE,
                     tokenized |-> TRUE, path |-> cached,
                     error |-> OpenError(fsys, cached, TRUE)]
               ELSE [examples |-> exs,
                     fs |-> WriteFile(fsys, cached, pickle_dump(exs)),
                     hit |-> FALSE, tokenized |-> TRUE, path |-> cached,
                     error |-> "none"]

----------------------------------------------------------------------------
(* The command line *)

\* A checkpoint in the directory of the source file, "../d/g" as seen from
\* ./dataset_cached; the same below the source file, "../d/f/g"; and the
\* absolute name of ./dataset_cached/g.
IdBesideSource == <<".", ".", "/", "d", "/", "g">>
IdBelowSource == <<".", ".", "/", "d", "/", "f", "/", "g">>
IdAbsolute ==
    <<"/">> \o Up2 \o <<"/">> \o Up1 \o <<"/">> \o CwdName \o <<"/">>
        \o DatasetCachedName \o <<"/", "g">>

\* args.model_name_or_path in the cache and build scenarios: a hub id,
\* the same name as a local path, an id with a directory part that does
\* not exist, and one with a directory that does.
ModelIds == {<<"g">>, <<".", "/", "g">>, <<"a", "/", "g">>, IdBesideSource}

\* args.model_name_or_path in the key scenario: ids that end in a digit, in
\* "_", or in what looks like the rest of a cache file name, and ids that
\* are paths.
KeyModelIds ==
    {<<"g">>, <<"g", "1">>, <<"g", "_">>, <<"g">> \o CachedLm \o <<"1">>,
     <<".", "/", "g">>, <<"a", "/", "g">>, IdBesideSource, IdBelowSource,
     IdAbsolute}

\* args.model_name_or_path of a run of main.
MainModelIds == {<<"g">>, <<"a", "/", "g">>, IdBesideSource}

Texts == SeqsUpTo(Words, MaxTextLen)

\* The text of the key scenario: words 1, 2, 1, 2, ...
KeyText == [i \in 1..MaxTextLen |-> ((i - 1) % 2) + 1]

KeyOf(model_name_or_path, block_size, file_path) ==
    <<model_name_or_path, block_size, os_path_split(file_path)[2]>>

NoKey == <<<<>>, 0, <<>>>>
NoLast == [op |-> "none", key |-> NoKey, overwrite |-> FALSE, hit |-> FALSE,
           tokenized |-> FALSE, had_built |-> FALSE, text |-> <<>>,
           error |-> "none"]
NoFiles == [p \in {} |-> <<>>]

----------------------------------------------------------------------------
(* The state of evaluate() while no evaluation runs *)

NoArgs == [model_name_or_path |-> <<>>, block_size |-> 0,
           overwrite_cache |-> FALSE, per_gpu_eval_batch_size |-> 0,
           n_gpu |-> 0, eval_batch_size |-> 0, warmup_steps |-> 0,
           iter |-> 0]
NoOut == [kind |-> "none", perf |-> <<0, 0>>, latency |-> <<0, 0>>,
          has_latency |-> FALSE]
NoResult == [kind |-> "none", minuend |-> 0, exp_of |-> <<0, 0>>]

EvalIdle ==
    /\ args = NoArgs
    /\ pc = "idle"
    /\ ds = <<>>
    /\ model = 0
    /\ batches = <<>>
    /\ idx = 0
    /\ eval_loss = 0
    /\ nb_eval_steps = 0
    /\ total_time = 0
    /\ ort_inputs = NoFiles
    /\ onnx_inputs = 0
    /\ cuda_devices = 0
    /\ main_fs = NoFiles
    /\ hist = <<>>
    /\ out = NoOut
    /\ result = NoResult
    /\ prev = NoFiles
    /\ calls = 0

----------------------------------------------------------------------------
(* The cache scenario: TextDataset is constructed again and again, under   *)
(* any model id, block size and overwrite flag, over files that persist;   *)
(* between constructions the source text may be edited.                    *)

\* One construction, lines 55-84, with the history of what it did.
Construct(model_name_or_path, block_size, overwrite_cache) ==
    \E key \in {KeyOf(model_name_or_path, block_size, EvalDataFile)},
       r \in {TextDataset(fs, file_text, model_name_or_path,
                          overwrite_cache, EvalDataFile, block_size)} :
       /\ examples' = IF r.error = "none" THEN r.examples ELSE examples
       /\ fs' = r.fs
       /\ last' = [op |-> "construct", key |-> key,
                   overwrite |-> overwrite_cache, hit |-> r.hit,
                   tokenized |-> r.tokenized,
                   had_built |-> key \in DOMAIN built, text |-> file_text,
                   error |-> r.error]
       /\ built' = IF r.tokenized /\ r.error = "none"
                   THEN Put(built, key, r.examples)
                   ELSE built
       /\ nops' = nops + 1
       /\ UNCHANGED file_text

InitCache ==
    /\ fs = NoFiles
    /\ file_text \in Texts
    /\ examples = <<>>
    /\ last = NoLast
    /\ built = NoFiles
    /\ nops = 0
    /\ EvalIdle

ConstructCache ==
    /\ nops < MaxOps
    /\ \E m \in ModelIds, b \in 1..MaxBlock, ow \in BOOLEAN : Construct(m, b, ow)
    /\ UNCHANGED evalVars

\* The source file is edited in place: a word is appended, or the first
\* word is removed.  Its name does not change.
EditFile ==
    /\ nops < MaxOps
    /\ \/ \E w \in Words : /\ Len(file_text) < MaxTextLen
                            /\ file_text' = Append(file_text, w)
       \/ /\ file_text # <<>>
          /\ file_text' = Tail(file_text)
    /\ last' = [NoLast EXCEPT !.op = "edit"]
    /\ nops' = nops + 1
    /\ UNCHANGED <<fs, examples, built>>
    /\ UNCHANGED evalVars

NextCache == ConstructCache \/ EditFile

SpecCache == InitCache /\ [][NextCache]_vars

\* The build scenario: over any source text, a few constructions under any
\* model id, block size and overwrite flag.
ConstructBuild ==
    /\ nops < MaxBuilds
    /\ \E m \in ModelIds, b \in 1..MaxBlock, ow \in BOOLEAN : Construct(m, b, ow)
    /\ UNCHANGED evalVars

NextBuild == ConstructBuild

SpecBuild == InitCache /\ [][NextBuild]_vars

----------------------------------------------------------------------------
(* The key scenario: a few constructions over one unchanged source file,   *)
(* never overwriting, under model ids and block sizes whose names could    *)
(* run into one another.                                                   *)

InitKey ==
    /\ fs = NoFiles
    /\ file_text = KeyText
    /\ examples = <<>>
    /\ last = NoLast
    /\ built = NoFiles
    /\ nops = 0
    /\ EvalIdle

ConstructKey ==
    /\ nops < MaxKeyOps
    /\ \E m \in KeyModelIds, b \in 1..MaxKeyBlock : Construct(m, b, FALSE)
    /\ UNCHANGED evalVars

NextKey == ConstructKey

SpecKey == InitKey /\ [][NextKey]_vars

----------------------------------------------------------------------------
(* Claims about the token-block cache *)

LastIds == tokenize_to_ids(last.text)
LastBlock == last.key[2]
PathOfKey(k) == cached_features_file(k[1], k[2], k[3])

\* C3: a construction that builds (no cache hit) and completes, from a
\* text of N ids with block size B, yields exactly N div B blocks, block k
\* holding the ids at (0-based) positions k*B .. k*B+B-1 in text order,
\* each of length B, so that the last N mod B ids are in no block.
C3_BlocksPartitionText ==
    (last.op = "construct" /\ ~last.hit /\ last.error = "none") =>
        LET N == Len(LastIds)
            B == LastBlock
        IN /\ Len(examples) = N \div B
           /\ \A k \in 1..Len(examples) :
                 /\ Len(examples[k]) = B
                 /\ \A j \in 1..B : examples[k][j] = LastIds[(k - 1) * B + j]
           /\ Concat(examples) = SubSeq(LastIds, 1, N - (N % B))

\* A build that cut at least one block and dropped a remainder.
C3_Witness ==
    /\ last.op = "construct"
    /\ ~last.hit
    /\ last.error = "none"
    /\ Len(examples) >= 1
    /\ Len(LastIds) % LastBlock # 0

\* C4: once a dataset was built for a key, a later construction under the
\* same key without overwrite_cache returns the dataset that was built,
\* element for element, and does not invoke the tokenizer.
C4_CacheRoundTrip ==
    (last.op = "construct" /\ last.had_built /\ ~last.overwrite) =>
        /\ last.hit
        /\ ~last.tokenized
        /\ examples = built[last.key]

\* C5: for the one source filename, two (model id, block size) pairs that
\* differ have different cache paths; so a construction loads a cached
\* dataset only if its own pair built it, and a pair that has not built
\* yet builds afresh, whatever the other pairs have cached.
C5_NoKeyCollision ==
    (last.op = "construct") =>
        /\ \A k \in DOMAIN built :
              k # last.key =>
                 Resolve(fs, PathOfKey(k)) # Resolve(fs, PathOfKey(last.key))
        /\ last.hit => (last.had_built /\ examples = built[last.key])
        /\ ~last.had_built => (last.tokenized /\ ~last.hit)

----------------------------------------------------------------------------
(* Tensors: a shape and the elements in row-major order *)

\* torch.tensor(self.examples[item]) of every item of one batch, stacked by
\* the DataLoader's default collate: shape (number of blocks, block length).
Stack(blocks) ==
    [shape |-> <<Len(blocks), Len(blocks[1])>>, data |-> Concat(blocks)]

\* The batches DataLoader(eval_dataset, SequentialSampler, batch_size)
\* yields: consecutive groups of batch_size blocks, the last one shorter.
DataLoader(exs, batch_size) ==
    LET n == (Len(exs) + batch_size - 1) \div batch_size
    IN [k \in 1..n |->
           Stack(SubSeq(exs, (k - 1) * batch_size + 1,
                        Min(k * batch_size, Len(exs))))]

\* A unit dimension added behind the others (axis=-1).
expand_dims_Last(t) == [shape |-> t.shape \o <<1>>, data |-> t.data]

\* np.expand_dims(inputs, axis=0)
expand_dims(t) == [shape |-> <<1>> \o t.shape, data |-> t.data]

InputNames == <<"input1", "input2">>
InputCounts == {1, 2}

\* Lines 130-133: the loop over the declared inputs; inputs is reassigned
\* in every round, and ort_inputs keeps one tensor per input name.
RECURSIVE UpdateInputs(_, _, _, _)
UpdateInputs(ort, inputs, i, len_inputs) ==
    IF i >= len_inputs THEN ort
    ELSE LET e == expand_dims(inputs)
         IN UpdateInputs(Put(ort, InputNames[i + 1], e), e, i + 1,
                         len_inputs)

\* Lines 134-143: session.run on the feed, then the cross entropy of the
\* shifted logits against the shifted labels.  The engine and the loss are
\* external; here a deterministic stand-in, a function of the model, of
\* what was fed under the first input name and of the labels.  With blocks
\* of a single id, labels[..., 1:] of line 139 is empty and the mean over
\* no target is nan.
NaN == -1

lm_loss(m, feed, labels) ==
    IF labels.shape[2] <= 1 THEN NaN
    ELSE 1 + ((m * SumSeq(feed[InputNames[1]].data) + SumSeq(labels.data)
                 + Len(labels.data)) % 5)

\* Float addition and division of a loss: nan stays nan.  A quotient is
\* <<numerator, denominator>>, and nan is <<NaN, 1>>.
FAdd(a, b) == IF a = NaN \/ b = NaN THEN NaN ELSE a + b
FDiv(a, n) == IF a = NaN THEN <<NaN, 1>> ELSE <<a, n>>

\* The float sum of a sequence of losses, from 0.0 on.
RECURSIVE FSum(_)
FSum(s) == IF s = <<>> THEN 0 ELSE FAdd(FSum(SubSeq(s, 1, Len(s) - 1)), s[Len(s)])

----------------------------------------------------------------------------
(* evaluate(): the pieces of lines 97-175 *)

\* A warm-up test that also leaves out the step numbered warmup_steps.
Timed_Strict(nb, warmup_steps) == nb > warmup_steps

\* Lines 125 and 145: is the step about to be counted as nb a timed one.
Timed(nb, warmup_steps) == nb >= warmup_steps

\* Line 150: the early exit, tested after nb_eval_steps was incremented.
BreakNow(iter, nb, warmup_steps) == iter > 0 /\ nb > (warmup_steps + iter)

\* A throughput over all steps, warm-up included.
Throughput_AllSteps(nb, warmup_steps, eval_batch_size, time) ==
    <<nb * eval_batch_size, time>>

\* Line 154: perf, as numerator and denominator.
Throughput(nb, warmup_steps, eval_batch_size, time) ==
    <<(nb - warmup_steps) * eval_batch_size, time>>

\* Line 156: the latency in ms, as numerator and denominator.
Latency(nb, warmup_steps, time) == <<time * 1000, nb - warmup_steps>>

\* An accuracy that takes the loss sum for the mean.
Accuracy_NoMean(loss_sum, nb) ==
    [kind |-> "value", minuend |-> 100, exp_of |-> FDiv(loss_sum, 1)]

\* Lines 161-175: 100 - exp(eval_loss / nb_eval_steps), the quotient kept
\* as numerator and denominator.
Accuracy(loss_sum, nb) ==
    [kind |-> "value", minuend |-> 100, exp_of |-> FDiv(loss_sum, nb)]

\* A loss accumulator that lives on from one call to the next.
InitialEvalLoss_Carried == eval_loss

\* Line 112.
InitialEvalLoss == 0

\* Lines 98-122: the dataset is constructed, the batch size set, the
\* accumulators reset, the session opened.
EvalBegin(m) ==
    /\ Construct(args.model_name_or_path, args.block_size,
                 args.overwrite_cache)
    /\ args' = IF last'.error = "none"
               THEN [args EXCEPT !.eval_batch_size =
                        args.per_gpu_eval_batch_size * Max(1, args.n_gpu)]
               ELSE args
    /\ batches' = DataLoader(examples', args'.eval_batch_size)
    /\ model' = m
    /\ idx' = 0
    /\ eval_loss' = InitialEvalLoss
    /\ nb_eval_steps' = 0
    /\ total_time' = 0
    /\ ort_inputs' = NoFiles
    /\ hist' = <<>>
    /\ out' = NoOut
    /\ result' = NoResult
    /\ prev' = IF pc = "returned" THEN Put(prev, model, result) ELSE prev
    /\ calls' = calls + 1
    /\ pc' = IF last'.error = "none" THEN "loop" ELSE "failed"
    /\ UNCHANGED <<ds, onnx_inputs, cuda_devices, main_fs>>

Durations == {1, 2}

\* Lines 124-151: one round of the loop, on the next batch; the inference
\* and the loss of the round take dur timer ticks.
EvalStep ==
    /\ pc = "loop"
    /\ idx < Len(batches)
    /\ \E dur \in Durations :
         LET batch == batches[idx + 1]
             timed == Timed(nb_eval_steps, args.warmup_steps)
             feed == UpdateInputs(ort_inputs, batch, 0, onnx_inputs)
             loss == lm_loss(model, feed, batch)
         IN /\ ort_inputs' = feed
            /\ total_time' = IF timed THEN total_time + dur ELSE total_time
            /\ eval_loss' = FAdd(eval_loss, loss)
            /\ nb_eval_steps' = nb_eval_steps + 1
            /\ hist' = Append(hist, <<loss, dur>>)
            /\ idx' = idx + 1
            /\ pc' = IF BreakNow(args.iter, nb_eval_steps + 1,
                                 args.warmup_steps)
                     THEN "after_loop" ELSE "loop"
    /\ UNCHANGED <<args, ds, model, batches, onnx_inputs, cuda_devices, main_fs, out,
                   result, prev, calls>>
    /\ UNCHANGED cacheVars

\* Line 124: the data loader is exhausted.
EvalLoopEnd ==
    /\ pc = "loop"
    /\ idx = Len(batches)
    /\ pc' = "after_loop"
    /\ UNCHANGED <<args, ds, model, batches, idx, eval_loss, nb_eval_steps,
                   total_time, ort_inputs, onnx_inputs, cuda_devices, main_fs, hist, out,
                   result, prev, calls>>
    /\ UNCHANGED cacheVars

\* Lines 153-157, total_time not zero: throughput, and latency at batch
\* size 1, are printed.
EvalPerfReport ==
    /\ pc = "after_loop"
    /\ nb_eval_steps >= args.warmup_steps
    /\ total_time # 0
    /\ out' = [kind |-> "performance",
               perf |-> Throughput(nb_eval_steps, args.warmup_steps,
                                   args.eval_batch_size, total_time),
               latency |-> IF args.eval_batch_size = 1
                           THEN Latency(nb_eval_steps, args.warmup_steps,
                                        total_time)
                           ELSE <<0, 0>>,
               has_latency |-> args.eval_batch_size = 1]
    /\ pc' = "mean"
    /\ UNCHANGED <<args, ds, model, batches, idx, eval_loss, nb_eval_steps,
                   total_time, ort_inputs, onnx_inputs, cuda_devices, main_fs, hist,
                   result, prev, calls>>
    /\ UNCHANGED cacheVars

\* Line 154 with total_time = 0.0: the division raises ZeroDivisionError,
\* which nothing catches.
EvalPerfRaise ==
    /\ pc = "after_loop"
    /\ nb_eval_steps >= args.warmup_steps
    /\ total_time = 0
    /\ out' = [NoOut EXCEPT !.kind = "ZeroDivisionError"]
    /\ pc' = "raised"
    /\ UNCHANGED <<args, ds, model, batches, idx, eval_loss, nb_eval_steps,
                   total_time, ort_inputs, onnx_inputs, cuda_devices, main_fs, hist,
                   result, prev, calls>>
    /\ UNCHANGED cacheVars

\* Lines 158-159: the "no performance" message is logged.
EvalPerfNone ==
    /\ pc = "after_loop"
    /\ ~(nb_eval_steps >= args.warmup_steps)
    /\ out' = [NoOut EXCEPT !.kind = "no_performance"]
    /\ pc' = "mean"
    /\ UNCHANGED <<args, ds, model, batches, idx, eval_loss, nb_eval_steps,
                   total_time, ort_inputs, onnx_inputs, cuda_devices, main_fs, hist,
                   result, prev, calls>>
    /\ UNCHANGED cacheVars

\* Lines 161-175 with at least one step: the accuracy is returned.
EvalReturn ==
    /\ pc = "mean"
    /\ nb_eval_steps # 0
    /\ result' = Accuracy(eval_loss, nb_eval_steps)
    /\ pc' = "returned"
    /\ UNCHANGED <<args, ds, model, batches, idx, eval_loss, nb_eval_steps,
                   total_time, ort_inputs, onnx_inputs, cuda_devices, main_fs, hist, out,
                   prev, calls>>
    /\ UNCHANGED cacheVars

\* Line 161 with no step: eval_loss / 0 raises ZeroDivisionError.
EvalMeanRaise ==
    /\ pc = "mean"
    /\ nb_eval_steps = 0
    /\ result' = [NoResult EXCEPT !.kind = "ZeroDivisionError"]
    /\ pc' = "raised"
    /\ UNCHANGED <<args, ds, model, batches, idx, eval_loss, nb_eval_steps,
                   total_time, ort_inputs, onnx_inputs, cuda_devices, main_fs, hist, out,
                   prev, calls>>
    /\ UNCHANGED cacheVars

EvalRun ==
    \/ EvalStep
    \/ EvalLoopEnd
    \/ EvalPerfReport
    \/ EvalPerfRaise
    \/ EvalPerfNone
    \/ EvalReturn
    \/ EvalMeanRaise

----------------------------------------------------------------------------
(* main() *)

\* tokenizer.max_len_single_sentence, scaled down to the largest block.
max_len_single_sentence == MaxBlock

\* Lines 233-235: the block size main settles on.
NormalizedBlockSize(block_size) ==
    Min(IF block_size <= 0 THEN max_len_single_sentence ELSE block_size,
        max_len_single_sentence)

\* --block_size as given: the default -1, or 1, 2, ...
BlockSizeArgs == {-1} \cup (1..(MaxBlock + 1))

GpuCounts == {0, 1}   \* torch.cuda.device_count() of the machine
Weights == {1, 2}     \* the models evaluate() may be handed

\* The text of n words 1, 2, ..., n.
RampText(n) == [i \in 1..n |-> i]

\* A text the source file held in an earlier run.
StaleText == <<3, 2, 1>>

\* An earlier run with the same command line, on the text of that time.
StaleRun(a) ==
    TextDataset(NoFiles, StaleText, a.model_name_or_path, FALSE,
                EvalDataFile, NormalizedBlockSize(a.block_size))

\* The state at line 216: the command line is parsed; the cache directory
\* is empty or holds an earlier run's file.  n_gpu and eval_batch_size are
\* not set yet, and stand at 0.
InitMain(lens, batch_sizes, gpus, warmups, iters, overwrites, stales, ids) ==
    /\ file_text \in {RampText(n) : n \in lens}
    /\ args \in {[model_name_or_path |-> id,
                  block_size |-> b,
                  overwrite_cache |-> ow,
                  per_gpu_eval_batch_size |-> bs,
                  n_gpu |-> 0,
                  eval_batch_size |-> 0,
                  warmup_steps |-> w,
                  iter |-> it] :
                    id \in ids, b \in BlockSizeArgs, ow \in overwrites,
                    bs \in batch_sizes, w \in warmups, it \in iters}
    /\ cuda_devices \in gpus
    /\ \E stale \in stales, run \in {StaleRun(args)} :
         /\ fs = IF stale THEN run.fs ELSE NoFiles
         /\ built = IF stale /\ run.error = "none"
                    THEN Put(NoFiles,
                             KeyOf(args.model_name_or_path,
                                   NormalizedBlockSize(args.block_size),
                                   EvalDataFile),
                             run.examples)
                    ELSE NoFiles
    /\ onnx_inputs \in InputCounts
    /\ examples = <<>>
    /\ last = NoLast
    /\ nops = 0
    /\ pc = "parsed"
    /\ ds = <<>>
    /\ model = 0
    /\ batches = <<>>
    /\ idx = 0
    /\ eval_loss = 0
    /\ nb_eval_steps = 0
    /\ total_time = 0
    /\ ort_inputs = NoFiles
    /\ main_fs = NoFiles
    /\ hist = <<>>
    /\ out = NoOut
    /\ result = NoResult
    /\ prev = NoFiles
    /\ calls = 0

\* Line 218 on a machine with CUDA: torch.cuda.is_available() is true, so
\* "not args.no_cuda" is evaluated; the parser defines no --no_cuda, and
\* the attribute lookup raises AttributeError.  main() ends there.
MainNoCudaRaise ==
    /\ pc = "parsed"
    /\ cuda_devices >= 1
    /\ pc' = "failed"
    /\ UNCHANGED <<cacheVars, args, ds, model, batches, idx, eval_loss,
                   nb_eval_steps, total_time, ort_inputs, onnx_inputs,
                   cuda_devices, main_fs, hist, out, result, prev, calls>>

\* Lines 218-244 on a machine without CUDA: is_available() is false and
\* the "and" stops there; n_gpu is the device count, the block size is
\* settled.
MainSetup ==
    /\ pc = "parsed"
    /\ cuda_devices = 0
    /\ args' = [args EXCEPT !.n_gpu = cuda_devices,
                            !.block_size = NormalizedBlockSize(args.block_size)]
    /\ pc' = "main"
    /\ UNCHANGED <<cacheVars, ds, model, batches, idx, eval_loss,
                   nb_eval_steps, total_time, ort_inputs, onnx_inputs,
                   cuda_devices, main_fs, hist, out, result, prev, calls>>

\* Line 245: ds = load_and_cache_examples(args, tokenizer, evaluate=True).
\* When the constructor raises, main() ends with its exception.
MainLoad ==
    /\ pc = "main"
    /\ Construct(args.model_name_or_path, args.block_size,
                 args.overwrite_cache)
    /\ ds' = examples'
    /\ main_fs' = fs'
    /\ pc' = IF last'.error = "none" THEN "driver" ELSE "failed"
    /\ UNCHANGED <<args, model, batches, idx, eval_loss, nb_eval_steps,
                   total_time, ort_inputs, onnx_inputs, cuda_devices, hist, out, result,
                   prev, calls>>

\* Lines 250-251: --benchmark, evaluate() is called once on the model
\* loaded from args.model_path.
BenchmarkEvaluate ==
    /\ pc = "driver"
    /\ calls = 0
    /\ \E m \in Weights : EvalBegin(m)

\* Lines 247-248, called from the driver at line 259: eval_func(model) on
\* a model of the driver's choice, again and again.
EvalFuncCall ==
    /\ pc \in {"driver", "returned"}
    /\ calls < MaxCalls
    /\ \E m \in Weights : EvalBegin(m)

\* A benchmark run.
Init ==
    InitMain(0..MaxEvalLen, 1..MaxBatch, GpuCounts, 0..MaxWarmup,
             0..MaxIter, BOOLEAN, BOOLEAN, MainModelIds)

Next == MainNoCudaRaise \/ MainSetup \/ MainLoad \/ BenchmarkEvaluate \/ EvalRun

Spec == Init /\ [][Next]_vars

\* A tuning run.
InitTune ==
    InitMain(0..MaxTuneLen, 1..MaxBatch, GpuCounts, 0..1, 0..1, BOOLEAN,
             BOOLEAN, MainModelIds)

NextTune == MainNoCudaRaise \/ MainSetup \/ MainLoad \/ EvalFuncCall \/ EvalRun

SpecTune == InitTune /\ [][NextTune]_vars

----------------------------------------------------------------------------
(* Claims about the evaluation loop *)

InEvaluate == pc \in {"loop", "after_loop", "mean", "returned", "raised"}

\* The losses of the processed steps, in order.
HistLosses == [i \in 1..Len(hist) |-> hist[i][1]]

\* The durations of the processed steps whose (0-based) index is at least
\* warmup_steps, in order.
PostWarmupDurations ==
    LET n == Max(Len(hist) - args.warmup_steps, 0)
    IN [i \in 1..n |-> hist[args.warmup_steps + i][2]]

StepsAfterWarmup == Len(PostWarmupDurations)

\* C1: with an iteration cap iter > 0 the loop processes at most
\* warmup_steps + iter steps (at most 5 with warmup_steps = 2, iter = 3).
C1_AtMostWarmupPlusIter ==
    (InEvaluate /\ args.iter > 0) =>
        nb_eval_steps <= args.warmup_steps + args.iter

\* C2: once the loop is over with no step after the warm-up window
\* (nb_eval_steps <= warmup_steps, zero steps included), what the
\* throughput/latency stage produced is the "no performance" message,
\* not an error.
C2_NoPerformanceDiagnosed ==
    (pc \in {"mean", "returned", "raised"}
        /\ nb_eval_steps <= args.warmup_steps) =>
        out.kind = "no_performance"

\* C6: at every point of the loop, after n steps the loss accumulator is
\* the (float) sum of the losses of all n steps and the elapsed time is the sum of
\* the durations of exactly the steps with index >= warmup_steps, of which
\* there are max(0, n - warmup_steps).
C6_Accumulators ==
    InEvaluate =>
        /\ nb_eval_steps = Len(hist)
        /\ eval_loss = FSum(HistLosses)
        /\ total_time = SumSeq(PostWarmupDurations)
        /\ StepsAfterWarmup = Max(0, nb_eval_steps - args.warmup_steps)

\* In the loop, past a warm-up of at least one step, with two timed steps
\* and a loss sum that is a number.
C6_Witness ==
    /\ pc = "loop"
    /\ eval_loss # NaN
    /\ eval_loss > 0
    /\ args.warmup_steps >= 1
    /\ nb_eval_steps >= args.warmup_steps + 2
    /\ total_time > 0
    /\ total_time < SumSeq([i \in 1..Len(hist) |-> hist[i][2]])

\* C7: when performance is reported, the throughput is (steps after
\* warm-up * eval batch size) / elapsed time after warm-up; a latency is
\* reported exactly when the eval batch size is 1, and is then the elapsed
\* time after warm-up / steps after warm-up (printed in ms).
C7_ThroughputLatency ==
    (out.kind = "performance") =>
        /\ args.eval_batch_size
              = args.per_gpu_eval_batch_size * Max(1, args.n_gpu)
        /\ out.perf = <<StepsAfterWarmup * args.eval_batch_size,
                        SumSeq(PostWarmupDurations)>>
        /\ out.has_latency <=> (args.eval_batch_size = 1)
        /\ out.has_latency =>
              out.latency = <<SumSeq(PostWarmupDurations) * 1000,
                              StepsAfterWarmup>>

\* A report with a latency, after a warm-up and two timed steps.
C7_Witness ==
    /\ out.kind = "performance"
    /\ out.has_latency
    /\ args.warmup_steps >= 1
    /\ StepsAfterWarmup >= 2

\* C8: whenever evaluate() returns after a non-empty sequence of steps,
\* the value is 100 - exp(mean_loss), mean_loss being the (float) sum of
\* the losses of all processed steps over the number of processed steps.
C8_AccuracyOfMeanLoss ==
    (result.kind = "value") =>
        /\ hist # <<>>
        /\ result.minuend = 100
        /\ result.exp_of = FDiv(FSum(HistLosses), Len(hist))

\* A value returned after three steps, one of them a warm-up step, the
\* mean loss a number.
C8_Witness ==
    /\ pc = "returned"
    /\ result.kind = "value"
    /\ result.exp_of[1] # NaN
    /\ Len(hist) >= 3
    /\ args.warmup_steps >= 1

\* C10: at every step, under every declared input name the session is fed
\* a rank-2 tensor of shape (1, block_size) holding a single block.
C10_Rank2SingleBlock ==
    (InEvaluate /\ nb_eval_steps > 0) =>
        /\ Cardinality(DOMAIN ort_inputs) = onnx_inputs
        /\ \A name \in DOMAIN ort_inputs :
              /\ ort_inputs[name].shape = <<1, args.block_size>>
              /\ \E k \in 1..Len(examples) :
                    ort_inputs[name].data = examples[k]

\* The blocks of the batch drawn last.
CurrentBlocks ==
    SubSeq(examples, (idx - 1) * args.eval_batch_size + 1,
           Min(idx * args.eval_batch_size, Len(examples)))

Ones(n) == [i \in 1..n |-> 1]

\* C10, amended: at every step, under the i-th declared input name
\* (i = 1, 2, ...) the session is fed a tensor of rank i + 2 and shape
\* (1, ..., 1, b, block_size) with i leading ones, holding the b blocks of
\* the current batch in order, b being eval_batch_size or, for the last
\* batch, what is left; so the first input is rank 3, (1, b, block_size).
C10_FeedShapes ==
    (InEvaluate /\ nb_eval_steps > 0) =>
        /\ DOMAIN ort_inputs = {InputNames[i] : i \in 1..onnx_inputs}
        /\ Len(CurrentBlocks) >= 1
        /\ Len(CurrentBlocks) <= args.eval_batch_size
        /\ \A i \in 1..onnx_inputs :
              /\ ort_inputs[InputNames[i]].shape
                    = Ones(i) \o <<Len(CurrentBlocks), args.block_size>>
              /\ ort_inputs[InputNames[i]].data = Concat(CurrentBlocks)

\* Two declared inputs, a full batch of two blocks of two ids.
C10_Witness ==
    /\ pc = "loop"
    /\ nb_eval_steps > 0
    /\ onnx_inputs = 2
    /\ ort_inputs[InputNames[1]].shape = <<1, 2, 2>>
    /\ ort_inputs[InputNames[2]].shape = <<1, 1, 2, 2>>

----------------------------------------------------------------------------
(* Claims about the scoring function *)

\* C9: successive eval_func calls on one model, over an unchanged source
\* file and a deterministic engine, return the same accuracy; every call
\* starts with loss sum, step count and elapsed time at zero; and no call
\* changes the dataset or the content of the cached file.
C9_EvalFuncRepeatable ==
    /\ (pc = "returned" /\ model \in DOMAIN prev) => result = prev[model]
    /\ (pc = "loop" /\ idx = 0) =>
          (eval_loss = 0 /\ nb_eval_steps = 0 /\ total_time = 0)
    /\ calls >= 1 => (examples = ds /\ fs = main_fs)

\* A second call on the same model has returned, under overwrite_cache,
\* after two steps, with an accuracy that is a number.
C9_Witness ==
    /\ pc = "returned"
    /\ result.exp_of[1] # NaN
    /\ calls = 2
    /\ model \in DOMAIN prev
    /\ args.overwrite_cache
    /\ Len(hist) >= 2

====
